---------------------------- MODULE Spec2Model ----------------------------
(***************************************************************************)
(* Model of the image_editor workspace: the two filter plug-ins            *)
(* (blur_plugin, mirror_plugin), each exporting process_image, and the     *)
(* host (image_processor) that loads a plug-in and calls it on a decoded   *)
(* RGBA8 buffer.                                                           *)
(*                                                                         *)
(* Machine integers.  TLC evaluates with 32-bit signed integers, so a      *)
(* 32-bit unsigned value cannot be written down.  The machine is therefore *)
(* modelled at a reduced word size: the code's u32 is an unsigned integer  *)
(* of WordBits bits, i32::MAX is 2^(WordBits-1)-1, and usize / isize are   *)
(* ptr_bits wide, where ptr_bits is WordBits on a "32-bit" target and      *)
(* 2*WordBits on a "64-bit" one.  Bytes (u8) keep their width.  Every      *)
(* comparison and every wrap of the code is kept, at the reduced width.    *)
(***************************************************************************)
EXTENDS Integers, Sequences, FiniteSets, TLC

(* ----------------------------- bounds --------------------------------- *)

\* Width of the model's u32 (the code's is 32).
WordBits == 12
\* Images of at most MaxFree pixels take every colouring over Palette.
MaxFree == 2
\* Small image dimensions are 0..MaxSmallDim.
MaxSmallDim == 3
\* Iteration counts offered in the blur configuration are 0..MaxIter.
MaxIter == 2

(* ------------------------- machine integers --------------------------- *)

Pow2(n) == 2 ^ n

\* u8::MAX
U8Max == 255
\* u32::MAX and i32::MAX at the model's word size
U32Max == Pow2(WordBits) - 1
I32Max == Pow2(WordBits - 1) - 1

\* The build: pointer width of the target, and whether the profile enables
\* overflow checks and debug assertions (dev profile) or not (release).
Targets == [ptr_bits : {WordBits, 2 * WordBits}, debug : BOOLEAN]

UsizeMax(t) == Pow2(t.ptr_bits) - 1
IsizeMax(t) == Pow2(t.ptr_bits - 1) - 1

\* Option::None of the checked operations and of try_into's Err
None == -1

\* u32::checked_mul
checked_mul(a, b) == IF a * b > U32Max THEN None ELSE a * b
\* u32::saturating_mul
saturating_mul(a, b) == IF a * b > U32Max THEN U32Max ELSE a * b
\* usize::saturating_sub
saturating_sub(a, b) == IF b > a THEN 0 ELSE a - b
\* TryInto<usize> for u32
try_into_usize(v, t) == IF v > UsizeMax(t) THEN None ELSE v
\* TryInto<isize> for u32
try_into_isize(v, t) == IF v > IsizeMax(t) THEN None ELSE v
\* `v as isize` for a u32 v: two's-complement reinterpretation when it does not fit
as_isize(v, t) == IF v > IsizeMax(t) THEN v - Pow2(t.ptr_bits) ELSE v

Max(a, b) == IF a >= b THEN a ELSE b
Min(a, b) == IF a <= b THEN a ELSE b

(* --------------------------- configuration ---------------------------- *)

\* A JSON value of a configuration object: an unsigned integer literal, a
\* negative integer literal, a boolean (v is 1 or 0), or a string.
Num(n) == [t |-> "uint", v |-> n]
Neg(n) == [t |-> "negative", v |-> n]
Bool(b) == [t |-> "bool", v |-> IF b THEN 1 ELSE 0]
Str == [t |-> "string", v |-> 0]

\* A configuration text, by what a JSON reader sees in it: bytes that are not
\* UTF-8, the empty text, text that is not JSON, or an object given as the
\* sequence of its <<key, value>> members in textual order.
BadUtf8 == [kind |-> "bad_utf8", members |-> << >>]
EmptyText == [kind |-> "empty", members |-> << >>]
Garbage == [kind |-> "garbage", members |-> << >>]
Object(ms) == [kind |-> "object", members |-> ms]

\* The params argument: a null pointer or a pointer to a text
NullParams == [kind |-> "null", members |-> << >>]

\* Params of the blur plug-in, and the value substituted when decoding fails
BlurParams(r, i) == [radius |-> r, iterations |-> i]
BlurDefault == BlurParams(1, 1)
\* Params of the mirror plug-in, and the value substituted when decoding fails
MirrorParams(hz, vt) == [horizontal |-> hz, vertical |-> vt]
MirrorDefault == MirrorParams(FALSE, FALSE)

\* The type tests of the fields: a u32 is a non-negative integer in range
is_u32(val) == val.t = "uint" /\ val.v <= U32Max
is_bool(val) == val.t = "bool"
field_ok(val, ty) == IF ty = "u32" THEN is_u32(val) ELSE is_bool(val)

\* The derived Deserialize of a two-field struct, reading the members of an
\* object in order: a member named like a field must have the field's type
\* and must not repeat; other members are skipped; at the end both fields
\* must have been seen.  ty is the type of the fields ("u32" or "bool").
\* The result is <<ok, first, second>>.
RECURSIVE visit_map(_, _, _, _, _, _)
visit_map(ms, i, f1, f2, ty, acc) ==
    IF i > Len(ms)
    THEN <<acc[2] # None /\ acc[3] # None, acc[2], acc[3]>>
    ELSE LET key == ms[i][1]
             val == ms[i][2]
         IN IF key = f1
            THEN IF acc[2] # None \/ ~field_ok(val, ty)
                 THEN <<FALSE, None, None>>
                 ELSE visit_map(ms, i + 1, f1, f2, ty, <<TRUE, val.v, acc[3]>>)
            ELSE IF key = f2
            THEN IF acc[3] # None \/ ~field_ok(val, ty)
                 THEN <<FALSE, None, None>>
                 ELSE visit_map(ms, i + 1, f1, f2, ty, <<TRUE, acc[2], val.v>>)
            ELSE visit_map(ms, i + 1, f1, f2, ty, acc)

\* blur_decode with a fallback record other than the documented default
blur_decode_other_default(text) ==
    IF text.kind # "object"
    THEN BlurParams(0, 0)
    ELSE LET r == visit_map(text.members, 1, "radius", "iterations", "u32",
                            <<TRUE, None, None>>)
         IN IF r[1] THEN BlurParams(r[2], r[3]) ELSE BlurParams(0, 0)

\* serde_json::from_str::<Params> of the blur plug-in with its Err arm
blur_decode(text) ==
    IF text.kind # "object"
    THEN BlurDefault
    ELSE LET r == visit_map(text.members, 1, "radius", "iterations", "u32",
                            <<TRUE, None, None>>)
         IN IF r[1] THEN BlurParams(r[2], r[3]) ELSE BlurDefault

\* serde_json::from_str::<Params> of the mirror plug-in with its Err arm
mirror_decode(text) ==
    IF text.kind # "object"
    THEN MirrorDefault
    ELSE LET r == visit_map(text.members, 1, "horizontal", "vertical", "bool",
                            <<TRUE, None, None>>)
         IN IF r[1] THEN MirrorParams(r[2] = 1, r[3] = 1) ELSE MirrorDefault

\* Whether from_str returns Ok for the plug-in's Params
blur_decodes(text) ==
    /\ text.kind = "object"
    /\ visit_map(text.members, 1, "radius", "iterations", "u32", <<TRUE, None, None>>)[1]
mirror_decodes(text) ==
    /\ text.kind = "object"
    /\ visit_map(text.members, 1, "horizontal", "vertical", "bool", <<TRUE, None, None>>)[1]


(* ------------------------------ buffers -------------------------------- *)

\* A buffer is a sequence of bytes; byte i of the code is element i + 1.
\* The slice made by from_raw_parts_mut(data, len) is the first len bytes of
\* the caller's memory; the rest of that memory is out of the filter's reach.
SliceOf(mem, len) == SubSeq(mem, 1, len)
\* The caller's memory after the filter wrote `slice` through its view
WriteBack(mem, slice) ==
    [i \in 1..Len(mem) |-> IF i <= Len(slice) THEN slice[i] ELSE mem[i]]

\* The outcome of a call: how it ended and the caller's memory afterwards.
\*   "ok"    process_image returned 0
\*   "fail"  process_image returned -1
\*   "panic" a panic inside the extern "C" function: the process aborts
\*   "ub"    the filter read or wrote outside the caller's memory
\* overflow tells whether an addition to a channel accumulator of the blur
\* exceeded u32::MAX during the call.
Outcome(st, mem) == [status |-> st, data |-> mem, overflow |-> FALSE]

(* ------------------------------ box blur ------------------------------- *)

\* The in-image part of the window of pixel (x, y): the neighbours (nx, ny)
\* with nx = x + dx, ny = y + dy, dx, dy in -radius..=radius, that pass
\* `nx >= 0 && nx < w && ny >= 0 && ny < h`.  A negative radius (a u32 radius
\* that does not fit isize) gives an empty range, hence no neighbour.
WinX0(x, radius) == Max(0, x - radius)
WinX1(x, w, radius) == Min(w - 1, x + radius)
WinEmpty(radius) == radius < 0

\* `count` after the two window loops
blur_count(x, y, w, h, radius) ==
    IF WinEmpty(radius) THEN 0
    ELSE (WinX1(x, w, radius) - WinX0(x, radius) + 1)
         * (WinX1(y, h, radius) - WinX0(y, radius) + 1)

\* The mathematical value of sum[c] after the two window loops, read from temp
RECURSIVE row_sum(_, _, _, _, _, _)
row_sum(temp, w, ny, nx, x1, c) ==
    IF nx > x1 THEN 0
    ELSE temp[((ny * w + nx) * 4) + c + 1] + row_sum(temp, w, ny, nx + 1, x1, c)

RECURSIVE rows_sum(_, _, _, _, _, _, _)
rows_sum(temp, w, ny, y1, x0, x1, c) ==
    IF ny > y1 THEN 0
    ELSE row_sum(temp, w, ny, x0, x1, c) + rows_sum(temp, w, ny + 1, y1, x0, x1, c)

blur_sum(temp, x, y, w, h, radius, c) ==
    IF WinEmpty(radius) THEN 0
    ELSE rows_sum(temp, w, WinX0(y, radius), WinX1(y, h, radius),
                  WinX0(x, radius), WinX1(x, w, radius), c)

\* sum[c] as the u32 accumulator holds it when `+=` wraps (overflow checks off)
blur_acc(temp, x, y, w, h, radius, c) ==
    blur_sum(temp, x, y, w, h, radius, c) % (U32Max + 1)

\* `(sum[c] / count) as u8`
blur_value(temp, x, y, w, h, radius, c) ==
    (blur_acc(temp, x, y, w, h, radius, c) \div blur_count(x, y, w, h, radius))
        % (U8Max + 1)

\* Whether `sum[c] += temp[idx + c] as u32` exceeds u32::MAX for some channel
\* at pixel (x, y).  No sum of count bytes exceeds count * u8::MAX, so the
\* sums of a small window need no look.
blur_overflows(temp, x, y, w, h, radius) ==
    /\ blur_count(x, y, w, h, radius) * U8Max > U32Max
    /\ \E c \in 0..3 : blur_sum(temp, x, y, w, h, radius, c) > U32Max

\* Whether the body of the x-loop panics at pixel (x, y) in every build:
\*   - count is 0 at `sum[c] / count` (empty window: radius negative as isize;
\*     this covers `-radius` overflowing for radius = isize::MIN);
\*   - temp[idx + c] is indexed outside the slice (the furthest neighbour's
\*     last byte is at or after temp.len()).
blur_faults(temp, x, y, w, h, radius) ==
    \/ WinEmpty(radius)
    \/ ((WinX1(y, h, radius) * w + WinX1(x, w, radius)) * 4) + 3 >= Len(temp)

\* Whether the body of the x-loop panics at pixel (x, y) before it writes:
\* a fault, or, with overflow checks on, `x + dx` / `y + dy` overflowing
\* isize or an accumulator overflowing u32.
blur_panics(t, temp, x, y, w, h, radius) ==
    \/ blur_faults(temp, x, y, w, h, radius)
    \/ t.debug /\ (x + radius > IsizeMax(t) \/ y + radius > IsizeMax(t))
    \/ t.debug /\ blur_overflows(temp, x, y, w, h, radius)

\* One pass of the iterations loop over the slice buf, reading temp.  Pixels
\* are visited in row-major order; the pass stops at the first pixel that
\* panics, and every pixel before it has been written.
blur_pass(t, buf, temp, w, h, radius) ==
    LET n == w * h
        bad == {p \in 0..(n - 1) : blur_panics(t, temp, p % w, p \div w, w, h, radius)}
        stop == IF bad = {} THEN n ELSE CHOOSE p \in bad : \A q \in bad : p <= q
        written == [i \in 1..(4 * stop) |->
                      LET p == (i - 1) \div 4
                      IN blur_value(temp, p % w, p \div w, w, h, radius, (i - 1) % 4)]
        wrapped == \E p \in 0..Min(stop, n - 1) :
                      /\ ~blur_faults(temp, p % w, p \div w, w, h, radius)
                      /\ blur_overflows(temp, p % w, p \div w, w, h, radius)
    IN [status |-> IF stop < n THEN "panic" ELSE "ok",
        data |-> written \o SubSeq(buf, 4 * stop + 1, Len(buf)),
        overflow |-> wrapped]

\* blur_iterate without the refresh of temp after a pass
RECURSIVE blur_iterate_stale(_, _, _, _, _, _, _)
blur_iterate_stale(t, buf, temp, w, h, radius, iterations) ==
    IF iterations = 0
    THEN Outcome("ok", buf)
    ELSE LET r == blur_pass(t, buf, temp, w, h, radius)
         IN IF r.status = "panic"
            THEN r
            ELSE LET rest == blur_iterate_stale(t, r.data, temp, w, h, radius,
                                                iterations - 1)
                 IN [rest EXCEPT !.overflow = @ \/ r.overflow]

\* `for _ in 0..params.iterations`: a pass, then temp.copy_from_slice(buf)
RECURSIVE blur_iterate(_, _, _, _, _, _, _)
blur_iterate(t, buf, temp, w, h, radius, iterations) ==
    IF iterations = 0
    THEN Outcome("ok", buf)
    ELSE LET r == blur_pass(t, buf, temp, w, h, radius)
         IN IF r.status = "panic"
            THEN r
            ELSE LET rest == blur_iterate(t, r.data, r.data, w, h, radius,
                                          iterations - 1)
                 IN [rest EXCEPT !.overflow = @ \/ r.overflow]

\* The filter body of the blur plug-in on the slice: temp = buf.to_vec(),
\* radius = params.radius as isize, then the iterations
blur_filter(t, buf, w, h, params) ==
    blur_iterate(t, buf, buf, w, h, as_isize(params.radius, t), params.iterations)

\* process_image of the blur plug-in.  The result is the set of outcomes the
\* call can have: one, except where the code has undefined behaviour.
blur_process_image(t, width, height, ptr, mem, text) ==
    LET total_pixels == checked_mul(width, height)
        len == saturating_mul(total_pixels, 4)
        len_usize == try_into_usize(len, t)
        w == try_into_isize(width, t)
        h == try_into_isize(height, t)
        r == blur_filter(t, SliceOf(mem, len_usize), w, h, blur_decode(text))
        run == IF text.kind = "bad_utf8"
               THEN {Outcome("fail", mem)}
               ELSE {[r EXCEPT !.data = WriteBack(mem, r.data)]}
    IN IF total_pixels = None THEN {Outcome("fail", mem)}
       ELSE IF len > 0 /\ ptr = "null" THEN {Outcome("fail", mem)}
       ELSE IF len_usize = None THEN {Outcome("fail", mem)}
       ELSE IF w = None THEN {Outcome("fail", mem)}
       ELSE IF h = None THEN {Outcome("fail", mem)}
       \* from_raw_parts_mut(data, len_usize)
       ELSE IF len_usize > Len(mem) THEN {Outcome("ub", mem)}
       ELSE IF ptr = "null" THEN {Outcome("panic", mem)} \cup run
       ELSE run

(* ------------------------------- mirror -------------------------------- *)

\* mirror_filter with the two flags taken for each other
mirror_filter_swapped(slice, w, h, params) ==
    LET copy == slice
    IN [i \in 1..Len(slice) |->
          LET p == (i - 1) \div 4
              x == p % w
              y == p \div w
              src_x == IF params.vertical
                       THEN saturating_sub(saturating_sub(w, 1), x) ELSE x
              src_y == IF params.horizontal
                       THEN saturating_sub(saturating_sub(h, 1), y) ELSE y
              src == (src_y * w + src_x) * 4
          IN copy[src + ((i - 1) % 4) + 1]]

\* The filter body of the mirror plug-in on the slice: copy = slice.to_vec(),
\* then every pixel (x, y) takes the 4 bytes of (src_x, src_y) of the copy
mirror_filter(slice, w, h, params) ==
    LET copy == slice
    IN [i \in 1..Len(slice) |->
          LET p == (i - 1) \div 4
              x == p % w
              y == p \div w
              src_x == IF params.horizontal
                       THEN saturating_sub(saturating_sub(w, 1), x) ELSE x
              src_y == IF params.vertical
                       THEN saturating_sub(saturating_sub(h, 1), y) ELSE y
              src == (src_y * w + src_x) * 4
          IN copy[src + ((i - 1) % 4) + 1]]

\* process_image of the mirror plug-in, as a set of outcomes
mirror_process_image(t, width, height, ptr, mem, text) ==
    LET total_pixels == checked_mul(width, height)
        buffer_size == checked_mul(total_pixels, 4)
        len == try_into_usize(buffer_size, t)
        w == try_into_usize(width, t)
        h == try_into_usize(height, t)
        run == IF text.kind = "bad_utf8"
               THEN {Outcome("fail", mem)}
               ELSE {Outcome("ok", WriteBack(mem,
                        mirror_filter(SliceOf(mem, len), w, h, mirror_decode(text))))}
    IN IF total_pixels = None THEN {Outcome("fail", mem)}
       ELSE IF buffer_size = None THEN {Outcome("fail", mem)}
       ELSE IF len = None THEN {Outcome("fail", mem)}
       ELSE IF len > 0 /\ ptr = "null" THEN {Outcome("fail", mem)}
       ELSE IF w = None THEN {Outcome("fail", mem)}
       ELSE IF h = None THEN {Outcome("fail", mem)}
       \* from_raw_parts_mut(data, len)
       ELSE IF len > Len(mem) THEN {Outcome("ub", mem)}
       ELSE IF ptr = "null" THEN {Outcome("panic", mem)} \cup run
       ELSE run

(* ------------------------------- inputs -------------------------------- *)

\* The colours of the plug-ins' tests
Red == <<255, 0, 0, 255>>
Green == <<0, 255, 0, 255>>
Blue == <<0, 0, 255, 255>>
Yellow == <<255, 255, 0, 255>>
Palette == <<Red, Green, Blue, Yellow>>

\* The RGBA8 buffer of a row-major sequence of pixels
Flatten(pixels) ==
    [i \in 1..(4 * Len(pixels)) |-> pixels[((i - 1) \div 4) + 1][((i - 1) % 4) + 1]]

\* The least number of 255-valued bytes whose sum exceeds u32::MAX
OverflowCount == (U32Max \div U8Max) + 1
\* The least pixel count whose byte count exceeds u32::MAX
QuarterDim == (U32Max \div 4) + 1

SmallDims == 0..MaxSmallDim
HugeDims == {QuarterDim, I32Max + 1, U32Max}

\* The (width, height) pairs offered to process_image
Sizes ==
    (SmallDims \X SmallDims)
    \cup ({OverflowCount} \X {0, 1, 2}) \cup ({0, 1} \X {OverflowCount})
    \cup (HugeDims \X {0}) \cup ({0} \X HugeDims)
    \cup {<<QuarterDim, 1>>, <<U32Max, U32Max>>, <<I32Max + 1, 2>>, <<2, I32Max + 1>>}

\* The images of n pixels: every colouring for n <= MaxFree, else the image
\* of one colour and the image that cycles through the palette; only the
\* former from QuarterDim pixels on.
Images(n) ==
    IF n <= MaxFree
    THEN {Flatten(px) : px \in [1..n -> {Red, Green, Blue, Yellow}]}
    ELSE {Flatten([i \in 1..n |-> Red])}
         \cup (IF n < QuarterDim
               THEN {Flatten([i \in 1..n |-> Palette[((i - 1) % 4) + 1]])}
               ELSE {})

\* Whether a buffer of width * height * 4 bytes can exist for the caller: its
\* size fits isize (the limit of an allocation) and the image has at most
\* u32::MAX pixels.
Allocatable(t, width, height) ==
    /\ width * height <= U32Max
    /\ width * height * 4 <= IsizeMax(t)

\* The memory a caller passes with (width, height): a buffer of exactly
\* width * height * 4 bytes when one can exist, else the 4-byte dummy the
\* plug-ins' overflow tests pass.
CallerMemory(t, width, height) ==
    IF Allocatable(t, width, height)
    THEN Images(width * height)
    ELSE {<<0, 0, 0, 0>>}

\* A blur configuration text and a mirror configuration text
BlurText(r, i) == Object(<<<<"radius", Num(r)>>, <<"iterations", Num(i)>>>>)
MirrorText(hz, vt) == Object(<<<<"horizontal", Bool(hz)>>, <<"vertical", Bool(vt)>>>>)

\* The configuration texts offered to process_image
BlurTexts ==
    {BlurText(r, i) : r \in {0, 1}, i \in 0..MaxIter}
    \cup {BlurText(OverflowCount - 1, i) : i \in 1..MaxIter}
    \cup {BlurText(2, 3), BlurText(I32Max + 1, 1), BlurText(U32Max, 1),
          Object(<<<<"iterations", Num(2)>>, <<"extra", Str>>, <<"radius", Num(0)>>>>)}
MirrorTexts == {MirrorText(hz, vt) : hz \in BOOLEAN, vt \in BOOLEAN}
UndecodableTexts ==
    {EmptyText, Garbage, Object(<< >>),
     Object(<<<<"radius", Num(2)>>>>),
     Object(<<<<"radius", Str>>, <<"iterations", Num(2)>>>>),
     Object(<<<<"radius", Neg(1)>>, <<"iterations", Num(2)>>>>),
     Object(<<<<"radius", Num(U32Max + 1)>>, <<"iterations", Num(2)>>>>),
     Object(<<<<"radius", Num(2)>>, <<"iterations", Num(2)>>, <<"radius", Num(0)>>>>),
     Object(<<<<"horizontal", Bool(TRUE)>>>>),
     Object(<<<<"horizontal", Num(1)>>, <<"vertical", Num(1)>>>>)}
Texts == BlurTexts \cup MirrorTexts \cup UndecodableTexts \cup {NullParams, BadUtf8}

\* The params files the host is run with
HostTexts == {EmptyText, BlurText(1, 2), MirrorText(TRUE, TRUE)}

Plugins == {"blur", "mirror"}

(* ------------------------------- state --------------------------------- *)

VARIABLES
    target,     \* the build the plug-ins and the host were compiled for
    width,      \* width argument / image width
    height,     \* height argument / image height
    ptr,        \* the data argument: "null" or "valid"
    orig,       \* the caller's memory before the call
    data,       \* the caller's memory now
    plugin,     \* the plug-in called ("none" before the call)
    params,     \* the params argument of the call
    status,     \* how the call ended ("none" before the call)
    pc,         \* position of the caller
    overflow,   \* whether an accumulator of the blur overflowed in the call
    seen,       \* what the host holds as the result of the call
    error,      \* the AppError main returned ("none" if none)
    output      \* the image the host saved (<< >> if none)

vars == <<target, width, height, ptr, orig, data, plugin, params, status,
          overflow, pc, seen, error, output>>

\* process_image of the named plug-in
process_image(name, t, wd, ht, p, mem, text) ==
    IF name = "blur"
    THEN blur_process_image(t, wd, ht, p, mem, text)
    ELSE mirror_process_image(t, wd, ht, p, mem, text)

\* The caller holds its arguments: a size, and either a buffer for it or null
Init ==
    /\ target \in Targets
    /\ \E sz \in Sizes :
          /\ width = sz[1]
          /\ height = sz[2]
          /\ \/ ptr = "valid" /\ orig \in CallerMemory(target, sz[1], sz[2])
             \/ ptr = "null" /\ orig = << >>
    /\ data = orig
    /\ plugin = "none"
    /\ params = NullParams
    /\ status = "none"
    /\ overflow = FALSE
    /\ pc = "ready"
    /\ seen = "none"
    /\ error = "none"
    /\ output = << >>

\* A direct call of a plug-in's process_image, as the plug-ins' tests make it
Call(name, text) ==
    /\ pc = "ready"
    /\ \E o \in process_image(name, target, width, height, ptr, data, text) :
          /\ data' = o.data
          /\ status' = o.status
          /\ overflow' = o.overflow
    /\ plugin' = name
    /\ params' = text
    /\ pc' = "called"
    /\ UNCHANGED <<target, width, height, ptr, orig, seen, error, output>>

BlurCall == \E text \in Texts : Call("blur", text)
MirrorCall == \E text \in Texts : Call("mirror", text)

(* -------------------------------- host --------------------------------- *)

\* The value ProcessImageFn gives back to its caller: the type declares no
\* result, so a call through it yields () whatever process_image returned.
ProcessImageFn(st) == "unit"

\* main up to the params text: the input and the params file must exist, the
\* image decodes to (width, height, buffer), the params file is read.  The
\* buffer is the Vec of a decoded image: it exists and its pointer is not null.
HostRead ==
    /\ pc = "ready"
    /\ ptr = "valid"
    /\ Allocatable(target, width, height)
    /\ \/ /\ error' \in {"InputImageNotFound", "ParamsFileNotFound",
                         "ImageLoadError", "Io"}
          /\ pc' = "host_error"
          /\ UNCHANGED params
       \/ /\ params' \in HostTexts
          /\ pc' = "host_read"
          /\ UNCHANGED error
    /\ UNCHANGED <<target, width, height, ptr, orig, data, plugin, status, overflow,
                   seen, output>>

\* Plugin::load: the library file must exist, then it must open and export
\* the symbol process_image
HostLoad ==
    /\ pc = "host_read"
    /\ \/ /\ error' \in {"PluginNotFound", "LibraryLoad"}
          /\ pc' = "host_error"
          /\ UNCHANGED plugin
       \/ /\ plugin' \in Plugins
          /\ pc' = "host_loaded"
          /\ UNCHANGED error
    /\ UNCHANGED <<target, width, height, ptr, orig, data, params, status, overflow,
                   seen, output>>

\* (plugin.process_image)(width, height, buffer.as_mut_ptr(), params_c.as_ptr());
\* a panic in the plug-in aborts the process
HostCall ==
    /\ pc = "host_loaded"
    /\ \E o \in process_image(plugin, target, width, height, ptr, data, params) :
          /\ data' = o.data
          /\ status' = o.status
          /\ overflow' = o.overflow
          /\ seen' = ProcessImageFn(o.status)
          /\ pc' = IF o.status = "panic" THEN "host_aborted" ELSE "host_called"
    /\ UNCHANGED <<target, width, height, ptr, orig, plugin, params, error, output>>

\* ImageBuffer::from_raw(width, height, buffer) and save
HostSave ==
    /\ pc = "host_called"
    /\ \/ /\ output' = data
          /\ pc' = "host_saved"
          /\ UNCHANGED error
       \/ /\ error' = "ImageLoadError"
          /\ pc' = "host_error"
          /\ UNCHANGED output
    /\ UNCHANGED <<target, width, height, ptr, orig, data, plugin, params, status,
                   overflow, seen>>

Next == BlurCall \/ MirrorCall \/ HostRead \/ HostLoad \/ HostCall \/ HostSave

Spec == Init /\ [][Next]_vars

(* ------------------------------- claims -------------------------------- *)

\* process_image was called
Called == status # "none"

\* The caller holds a real buffer of width * height * 4 bytes and that size
\* fits the 32-bit size computation
Accepted ==
    /\ ptr = "valid"
    /\ Allocatable(target, width, height)
    /\ width * height * 4 <= U32Max

\* What the call left: its status and the caller's memory
Left == [status |-> status, data |-> data]
\* The outcomes of the called plug-in on memory mem with configuration text
Outcomes(mem, text) ==
    {[status |-> o.status, data |-> o.data] :
        o \in process_image(plugin, target, width, height, ptr, mem, text)}

\* Whether the text decodes into the called plug-in's Params
Decodes == IF plugin = "blur" THEN blur_decodes(params) ELSE mirror_decodes(params)
\* The documented default configuration of the called plug-in, written out
DefaultText == IF plugin = "blur" THEN BlurText(1, 1) ELSE MirrorText(FALSE, FALSE)

\* C1: whenever width * height * 4 does not fit the 32-bit size computation,
\* process_image of either plug-in returns the failure code and leaves the
\* buffer as it was.  Stated of the calls that pass a buffer of
\* width * height * 4 bytes and a null or UTF-8 params.
C1_OverflowFails ==
    (Called /\ width * height * 4 > U32Max
     /\ ptr = "valid" /\ Allocatable(target, width, height)
     /\ params.kind # "bad_utf8")
        => (status = "fail" /\ data = orig)

\* C2: a call with width = 0 or height = 0 returns success and leaves the
\* buffer unchanged, whatever the other dimension and the params text.
\* Stated of the calls that pass a non-null data pointer and a null or UTF-8
\* params.
C2_ZeroSizeSucceeds ==
    (Called /\ (width = 0 \/ height = 0) /\ ptr = "valid"
     /\ params.kind # "bad_utf8")
        => (status = "ok" /\ data = orig)

C4_MirrorPixels ==
    \A hz \in BOOLEAN, vt \in BOOLEAN :
        (plugin = "mirror" /\ status = "ok" /\ ptr = "valid"
         /\ params = MirrorText(hz, vt))
            => /\ Len(data) = 4 * width * height
               /\ \A x \in 0..(width - 1), y \in 0..(height - 1), c \in 1..4 :
                     LET src_x == IF hz THEN width - 1 - x ELSE x
                         src_y == IF vt THEN height - 1 - y ELSE y
                     IN data[((y * width + x) * 4) + c]
                            = orig[((src_y * width + src_x) * 4) + c]

\* C4 happens: both flags on the 2x2 image [A, B, C, D] gave [D, C, B, A]
C4_Witness ==
    /\ plugin = "mirror"
    /\ status = "ok"
    /\ params = MirrorText(TRUE, TRUE)
    /\ width = 2 /\ height = 2
    /\ orig = Flatten(<<Red, Green, Blue, Yellow>>)
    /\ data = Flatten(<<Yellow, Blue, Green, Red>>)

\* The in-image neighbours of (x, y) within radius r, and a sum over a set
Neighbours(x, y, r) ==
    {q \in (0..(width - 1)) \X (0..(height - 1)) :
        /\ q[1] - x <= r /\ x - q[1] <= r
        /\ q[2] - y <= r /\ y - q[2] <= r}
RECURSIVE SumOver(_, _, _)
SumOver(S, mem, c) ==
    IF S = {} THEN 0
    ELSE LET q == CHOOSE e \in S : TRUE
         IN mem[((q[2] * width + q[1]) * 4) + c] + SumOver(S \ {q}, mem, c)

\* C5: a blur pass writes, for every pixel and channel, the truncated
\* quotient of the sum of the channel over the in-image neighbours (read
\* from the buffer as it stood at the start of the pass) by their number.
\* Stated of the calls that make one pass and return success.
C5_PassAverage ==
    (plugin = "blur" /\ status = "ok" /\ ptr = "valid"
     /\ params.kind # "bad_utf8" /\ blur_decode(params).iterations = 1)
        => \A x \in 0..(width - 1), y \in 0..(height - 1), c \in 1..4 :
              LET S == Neighbours(x, y, blur_decode(params).radius)
              IN data[((y * width + x) * 4) + c]
                     = SumOver(S, orig, c) \div Cardinality(S)

\* C6: a blur call with iterations = m + n ends as m passes followed, on the
\* resulting buffer, by n passes (a later call is made only if the earlier
\* one returned); a call with iterations = 0 leaves the buffer unchanged.
C6_IterationsCompose ==
    (Called /\ plugin = "blur" /\ params.kind # "bad_utf8")
        => LET r == blur_decode(params).radius
               it == blur_decode(params).iterations
           IN /\ (it = 0 /\ status = "ok") => data = orig
              /\ \A m \in 1..(it - 1) :
                    \E o1 \in Outcomes(orig, BlurText(r, m)) :
                        IF o1.status # "ok"
                        THEN o1 = Left
                        ELSE Left \in Outcomes(o1.data, BlurText(r, it - m))

\* C6 happens: two passes were made and left something else than one pass
C6_Witness ==
    /\ plugin = "blur"
    /\ status = "ok"
    /\ params = BlurText(1, 2)
    /\ \A o \in Outcomes(orig, BlurText(1, 1)) : o.data # data

\* Every pixel of the memory equals the first
Uniform(mem) == \A i \in 1..Len(mem) : mem[i] = mem[((i - 1) % 4) + 1]

\* C7: the blur of an image whose pixels are all equal, or of any image with
\* radius 0, returns success and leaves every byte as it was, for any radius
\* and any iterations.
C7_UniformFixed ==
    (Called /\ plugin = "blur" /\ Accepted /\ params.kind # "bad_utf8"
     /\ (Uniform(orig) \/ blur_decode(params).radius = 0))
        => (status = "ok" /\ data = orig)

\* C8: the status code process_image produced is what the host holds after
\* its call through the loaded Plugin.
C8_StatusReachesHost ==
    pc \in {"host_called", "host_saved"} => seen = status

\* C9: process_image of either plug-in returns the failure code whenever
\* width or height exceeds i32::MAX.
C9_BeyondI32Fails ==
    (Called /\ (width > I32Max \/ height > I32Max)) => status = "fail"

\* C10: no channel accumulator of the blur ever exceeds the range of its
\* 32-bit unsigned type.
C10_AccumulatorFits ==
    (Called /\ plugin = "blur") => ~overflow

=============================================================================
